---- MODULE Spec2Model ----
(***************************************************************************)
(* Model of smart.py, the Smart Study Assistant Streamlit script.          *)
(*                                                                         *)
(* Strings the code inspects character by character (the pasted texts)     *)
(* are sequences of characters, one element per character.  A character    *)
(* is the one-character string holding it; a character a TLA+ string       *)
(* cannot hold is written as its code point, e.g. "U+00A0".  Python's None *)
(* is the value None below.                                                *)
(***************************************************************************)
EXTENDS Integers, Sequences, FiniteSets, TLC

VARIABLES
    QA_KEY, SUMMARIZE_KEY,   \* os.getenv results (lines 12-13)
    pc,                      \* position of the script run
    rendered,                \* the page widgets were rendered (lines 77-90)
    option,                  \* sidebar selection whose handler ran
    context, question, text, \* widget values
    attempt, model,          \* loop variables of the retry loops
    summary,                 \* Summarize handler's summary
    hfret,                   \* how hf_api_with_retries finished
    trace,                   \* outbound POSTs and sleeps, in order
    ui,                      \* messages shown by st.error/warning/success/write
    question_type,           \* radio selection of Generate Questions
    sentences, idx,          \* generate_mcq_questions: fragments, loop position
    distractors,             \* generate_mcq_questions: the latest sample
    questions, mcqs,         \* results of the two generators
    raised,                  \* the handler ended with an uncaught exception
    flashcards,              \* Flashcard Generator's stored strings
    halted                   \* st.stop() (line 17) ended some run of this process

vars == <<QA_KEY, SUMMARIZE_KEY, pc, rendered, option, context, question,
          text, attempt, model, summary, hfret, trace, ui,
          question_type, sentences, idx, distractors, questions, mcqs,
          raised, flashcards, halted>>

appVars == <<pc, rendered, option, context, question, text, attempt, model,
             summary, hfret, trace, ui>>
genVars == <<question_type, sentences, idx, distractors, questions, mcqs, raised>>
flashVars == <<flashcards>>

None == "<None>"

\* Python truthiness of an optional string (None and "" are falsy).
Truthy(v) == v # None /\ v # ""

\* Python truthiness of a text (a sequence of characters).
NonEmpty(s) == Len(s) > 0

\* Positions of the outbound POSTs and of the sleeps in a trace.
PostsAt(tr) == {i \in 1..Len(tr) : tr[i][1] = "post"}
SleepsAt(tr) == {i \in 1..Len(tr) : tr[i][1] = "sleep"}

(***************************************************************************)
(* Python string operations used by the script                             *)
(***************************************************************************)
\* The characters str.split() and str.strip() treat as whitespace: the
\* characters c with c.isspace().
Whitespace ==
    {"\t", "\n", "U+000B", "\f", "\r", "U+001C", "U+001D", "U+001E", "U+001F",
     " ", "U+0085", "U+00A0", "U+1680", "U+2000", "U+2001", "U+2002", "U+2003",
     "U+2004", "U+2005", "U+2006", "U+2007", "U+2008", "U+2009", "U+200A",
     "U+2028", "U+2029", "U+202F", "U+205F", "U+3000"}

IsPrefix(p, s) == Len(p) <= Len(s) /\ SubSeq(s, 1, Len(p)) = p

Drop(s, n) == SubSeq(s, n + 1, Len(s))

\* str.split(sep): cut at every non-overlapping occurrence of sep, scanning
\* from the left; empty pieces are kept.
RECURSIVE SplitFrom(_, _, _)
SplitFrom(s, sep, cur) ==
    IF s = <<>> THEN <<cur>>
    ELSE IF IsPrefix(sep, s)
         THEN <<cur>> \o SplitFrom(Drop(s, Len(sep)), sep, <<>>)
         ELSE SplitFrom(Tail(s), sep, Append(cur, Head(s)))

split(s, sep) == SplitFrom(s, sep, <<>>)

RECURSIVE Split1From(_, _, _)
Split1From(s, sep, cur) ==
    IF s = <<>> THEN <<cur>>
    ELSE IF IsPrefix(sep, s)
         THEN <<cur, Drop(s, Len(sep))>>
         ELSE Split1From(Tail(s), sep, Append(cur, Head(s)))

\* sub in s, for a one-character sub
Contains(s, ch) == \E i \in 1..Len(s) : s[i] = ch

\* len(s.split()): the number of maximal runs of non-whitespace characters.
RECURSIVE TokensFrom(_, _)
TokensFrom(s, inTok) ==
    IF s = <<>> THEN 0
    ELSE IF Head(s) \in Whitespace THEN TokensFrom(Tail(s), FALSE)
    ELSE (IF inTok THEN 0 ELSE 1) + TokensFrom(Tail(s), TRUE)

TokenCount(s) == TokensFrom(s, FALSE)

RECURSIVE lstrip(_)
lstrip(s) ==
    IF s # <<>> /\ Head(s) \in Whitespace THEN lstrip(Tail(s)) ELSE s

RECURSIVE rstrip(_)
rstrip(s) ==
    IF s # <<>> /\ s[Len(s)] \in Whitespace
    THEN rstrip(SubSeq(s, 1, Len(s) - 1)) ELSE s

\* str.strip()
strip(s) == rstrip(lstrip(s))

(***************************************************************************)
(* Module startup, lines 12-17                                             *)
(***************************************************************************)
KeyValues == {None, "", "k"}

m_all(keys) == \E i \in 1..Len(keys) : Truthy(keys[i])
all(keys) == \A i \in 1..Len(keys) : Truthy(keys[i])

MissingKeyMsg == <<"error", "One or more API keys are missing. Check your .env file.">>

Startup ==
    /\ pc = "startup"
    /\ IF ~ all(<<QA_KEY, SUMMARIZE_KEY>>)
       THEN /\ ui' = Append(ui, MissingKeyMsg)
            /\ pc' = "stopped"
            /\ halted' = TRUE
            /\ UNCHANGED rendered
       ELSE /\ rendered' = TRUE
            /\ pc' = "ui"
            /\ UNCHANGED <<ui, halted>>
    /\ UNCHANGED <<QA_KEY, SUMMARIZE_KEY, option, context, question, text,
                   attempt, model, summary, hfret, trace>>
    /\ UNCHANGED <<genVars, flashVars>>

(***************************************************************************)
(* hf_api_with_retries, lines 23-33, and the Ask a Doubt handler, 93-114   *)
(***************************************************************************)
retries == 3
delay == 5

QA_URL == "deepset/roberta-base-squad2"

\* An outcome of the POST to the QA endpoint: err is "req" when requests.post
\* raises a RequestException, "http" when raise_for_status raises (HTTPError,
\* a RequestException), "other" when requests.post raises an exception that
\* is not a RequestException (e.g. OSError), "none" otherwise; kind is the body.
QAResponses ==
    {[err |-> "req", kind |-> "-"], [err |-> "http", kind |-> "-"],
     [err |-> "other", kind |-> "-"]}
    \cup [err : {"none"}, kind : {"notjson", "list", "dict_answer", "dict_noanswer"}]

Inputs == {<<>>, <<"a">>}

m_QAInputsOk(c, q) == NonEmpty(c) \/ NonEmpty(q)

\* Line 98: context and question
QAInputsOk(c, q) == NonEmpty(c) /\ NonEmpty(q)

GetAnswer ==
    /\ pc = "ui"
    /\ \E c \in Inputs, q \in Inputs :
          /\ context' = c
          /\ question' = q
          /\ option' = "Ask a Doubt"
          /\ IF QAInputsOk(c, q)
             THEN /\ pc' = "hf"
                  /\ attempt' = 0
                  /\ hfret' = "running"
                  /\ UNCHANGED ui
             ELSE /\ ui' = Append(ui, <<"warning", "Please provide both context and question.">>)
                  /\ pc' = "done"
                  /\ UNCHANGED <<attempt, hfret>>
    /\ UNCHANGED <<QA_KEY, SUMMARIZE_KEY, rendered, text, model, summary, trace>>
    /\ UNCHANGED <<genVars, flashVars, halted>>

\* Lines 107-112: what the handler shows for a returned response.
QAShow(r) ==
    CASE r.kind = "dict_answer"   -> <<<<"success", "Answer:">>, <<"write", "answer">>>>
      [] r.kind = "dict_noanswer" -> <<<<"success", "Answer:">>, <<"write", "No answer found.">>>>
      [] OTHER                    -> <<<<"error", "Error: exception">>>>

\* Line 29: except requests.exceptions.RequestException
IsRequestException(r) == r.err \in {"req", "http"}

m_SleepsBeforeRaise(att, n) == att < n

\* Line 30: the condition under which a failed attempt sleeps instead of raising.
SleepsBeforeRaise(att, n) == att < n - 1

\* One iteration of the loop of hf_api_with_retries; when the function
\* returns or raises, the rest of the handler (lines 107-112) runs too.
HfAttempt ==
    /\ pc = "hf"
    /\ attempt < retries
    /\ \E r \in QAResponses :
        LET posted == Append(trace, <<"post", QA_URL, r>>) IN
        IF r.err = "none"
        THEN /\ trace' = posted
             /\ hfret' = "response"
             /\ ui' = ui \o QAShow(r)
             /\ pc' = "done"
             /\ UNCHANGED attempt
        ELSE IF ~ IsRequestException(r)
        THEN \* not caught at line 29: propagates to the handler's except
             /\ trace' = posted
             /\ hfret' = "raised"
             /\ ui' = Append(ui, <<"error", "Error: exception">>)
             /\ pc' = "done"
             /\ UNCHANGED attempt
        ELSE IF SleepsBeforeRaise(attempt, retries)
        THEN /\ trace' = Append(posted, <<"sleep", delay>>)
             /\ attempt' = attempt + 1
             /\ IF attempt + 1 < retries
                THEN UNCHANGED <<hfret, ui, pc>>
                ELSE \* the loop ends and the function returns None;
                     \* response.json() then raises AttributeError
                     /\ hfret' = "none"
                     /\ ui' = Append(ui, <<"error", "Error: exception">>)
                     /\ pc' = "done"
        ELSE /\ trace' = posted
             /\ hfret' = "raised"
             /\ ui' = Append(ui, <<"error", "Error: exception">>)
             /\ pc' = "done"
             /\ UNCHANGED attempt
    /\ UNCHANGED <<QA_KEY, SUMMARIZE_KEY, rendered, option, context, question,
                   text, model, summary>>
    /\ UNCHANGED <<genVars, flashVars, halted>>

(***************************************************************************)
(* Summarize Notes handler, lines 117-151                                  *)
(***************************************************************************)
models == <<"facebook/bart-large-cnn", "sshleifer/distilbart-cnn-12-6">>
SumAttempts == 3
SumDelay == 1

\* A response of a summarization endpoint.  kind is the decoded body:
\* "notjson" (response.json() raises), "dict", "emptylist", "list_nokey"
\* (first element has no summary_text) or "list_summary".
SumResponses ==
    {[err |-> "req", kind |-> "-", summary_text |-> None],
     [err |-> "http", kind |-> "-", summary_text |-> None],
     [err |-> "other", kind |-> "-", summary_text |-> None]}
    \cup [err : {"none"}, kind : {"notjson", "dict", "emptylist", "list_nokey"},
          summary_text : {None}]
    \cup [err : {"none"}, kind : {"list_summary"}, summary_text : {"", "s"}]

\* Lines 129-136: the try body raises (any exception of requests.post, HTTP
\* error status, undecodable body, or result[0] of an empty list); the bare
\* except of line 139 catches all of them.
SumRaises(r) == r.err # "none" \/ r.kind \in {"notjson", "emptylist"}

\* Line 136: isinstance(result, list) and "summary_text" in result[0]
SumHasSummary(r) == ~ SumRaises(r) /\ r.kind = "list_summary"

Summarize ==
    /\ pc = "ui"
    /\ \E t \in Inputs :
          /\ text' = t
          /\ option' = "Summarize Notes"
          /\ IF NonEmpty(t)
             THEN /\ pc' = "sum"
                  /\ model' = 1
                  /\ attempt' = 0
                  /\ summary' = None
                  /\ UNCHANGED ui
             ELSE /\ ui' = Append(ui, <<"warning", "Please paste some text.">>)
                  /\ pc' = "done"
                  /\ UNCHANGED <<model, attempt, summary>>
    /\ UNCHANGED <<QA_KEY, SUMMARIZE_KEY, rendered, context, question, hfret, trace>>
    /\ UNCHANGED <<genVars, flashVars, halted>>

\* Lines 145-149
SumShow(s) ==
    IF Truthy(s) THEN <<<<"success", "Summary:">>, <<"write", s>>>>
    ELSE <<<<"error", "Failed to summarize text.">>>>

\* One iteration of the inner loop (lines 127-141) with the loop control
\* that follows it (lines 126, 142-143) and, when both loops are over, the
\* display of the outcome (lines 145-149).
SumAttempt ==
    /\ pc = "sum"
    /\ \E r \in SumResponses :
        LET posted == Append(trace, <<"post", models[model], r>>)
            brk == SumHasSummary(r)
            newSummary == IF brk THEN r.summary_text ELSE summary
            innerOver == brk \/ attempt + 1 >= SumAttempts
            outerOver == innerOver /\ (Truthy(newSummary) \/ model >= Len(models))
        IN
        /\ trace' = IF SumRaises(r) THEN Append(posted, <<"sleep", SumDelay>>)
                    ELSE posted
        /\ summary' = newSummary
        /\ IF outerOver
           THEN /\ ui' = ui \o SumShow(newSummary)
                /\ pc' = "done"
                /\ UNCHANGED <<model, attempt>>
           ELSE IF innerOver
           THEN /\ model' = model + 1
                /\ attempt' = 0
                /\ UNCHANGED <<ui, pc>>
           ELSE /\ attempt' = attempt + 1
                /\ UNCHANGED <<model, ui, pc>>
    /\ UNCHANGED <<QA_KEY, SUMMARIZE_KEY, rendered, option, context, question,
                   text, hfret>>
    /\ UNCHANGED <<genVars, flashVars, halted>>

(***************************************************************************)
(* generate_normal_questions, lines 36-46                                  *)
(***************************************************************************)
Delimiter == <<".", " ">>

m_Qualifies(sentence) == TokenCount(sentence) >= 5

\* Lines 42 and 56: len(sentence.split()) > 5
Qualifies(sentence) == TokenCount(sentence) > 5

\* Line 43: the f-string, as its three parts.
NormalQuestion(sentence) == <<"What is the meaning of '", strip(sentence), "?'">>

RECURSIVE NormalFrom(_)
NormalFrom(ss) ==
    IF ss = <<>> THEN <<>>
    ELSE (IF Qualifies(Head(ss)) THEN <<NormalQuestion(Head(ss))>> ELSE <<>>)
         \o NormalFrom(Tail(ss))

generate_normal_questions(t) == NormalFrom(split(t, Delimiter))

(***************************************************************************)
(* generate_mcq_questions, lines 50-74                                     *)
(***************************************************************************)
option_labels == <<"A", "B", "C", "D">>
SampleSize == 3

m_Others(ss, sentence) == ss

\* Line 61: [s for s in sentences if s != sentence]
Others(ss, sentence) == SelectSeq(ss, LAMBDA s : s # sentence)

\* random.sample(pop, k): any k elements at distinct positions, in any
\* order; no result (ValueError) when k > len(pop).
Samples(pop, k) ==
    {[j \in 1..k |-> pop[f[j]]] :
        f \in {g \in [1..k -> 1..Len(pop)] :
                  \A x, y \in 1..k : x # y => g[x] # g[y]}}

\* random.shuffle(options): any rearrangement.
Shuffles(opts) ==
    {[j \in 1..Len(opts) |-> opts[p[j]]] :
        p \in {g \in [1..Len(opts) -> 1..Len(opts)] :
                  \A x, y \in 1..Len(opts) : x # y => g[x] # g[y]}}

\* Line 66
McqQuestion(sentence) ==
    <<"What is described by the following statement?\n'", strip(sentence), "'">>

\* Line 70: the dict, as its items in insertion order.
LabelOptions(options) == [j \in 1..Len(options) |-> <<option_labels[j], options[j]>>]

\* Line 180: the labels whose option equals the correct answer, in order.
CorrectLabels(labeled, correct_answer) ==
    SelectSeq(labeled, LAMBDA it : it[2] = correct_answer)

\* Lines 168-181: what the handler shows for one question.
McqShow(k, mcq) ==
    <<<<"markdown", k, mcq[1]>>>>
    \o [j \in 1..Len(mcq[2]) |-> <<"write", mcq[2][j][1], mcq[2][j][2]>>]
    \o <<<<"correct", CorrectLabels(mcq[2], mcq[3])[1][1], mcq[3]>>>>

RECURSIVE McqShowAll(_, _)
McqShowAll(ms, k) ==
    IF k > Len(ms) THEN <<>> ELSE McqShow(k, ms[k]) \o McqShowAll(ms, k + 1)

(***************************************************************************)
(* Generate Questions handler, lines 154-183                               *)
(***************************************************************************)
GenerateQuestions ==
    /\ pc = "ui"
    /\ option = "Generate Questions"
    /\ IF ~ NonEmpty(text)
       THEN /\ ui' = Append(ui, <<"warning", "Please provide input text.">>)
            /\ pc' = "done"
            /\ UNCHANGED <<sentences, idx, questions>>
       ELSE IF question_type = "Normal Questions"
       THEN /\ questions' = generate_normal_questions(text)
            /\ ui' = Append(ui, <<"write", "Generating questions...">>)
                     \o [k \in 1..Len(questions') |-> <<"markdown", k, questions'[k]>>]
            /\ pc' = "done"
            /\ UNCHANGED <<sentences, idx>>
       ELSE /\ ui' = Append(ui, <<"write", "Generating questions...">>)
            /\ sentences' = split(text, Delimiter)
            /\ idx' = 1
            /\ pc' = "mcq"
            /\ UNCHANGED questions
    /\ UNCHANGED <<QA_KEY, SUMMARIZE_KEY, rendered, option, context, question,
                   text, attempt, model, summary, hfret, trace>>
    /\ UNCHANGED <<question_type, distractors, mcqs, raised, flashVars, halted>>

\* One iteration of the loop of generate_mcq_questions (lines 55-72); after
\* the last one the function returns and the handler shows the questions.
McqStep ==
    /\ pc = "mcq"
    /\ idx <= Len(sentences)
    /\ LET sentence == sentences[idx]
           correct_answer == strip(sentence)
           pop == Others(sentences, sentence)
           last == idx = Len(sentences)
       IN
       IF Qualifies(sentence) /\ Len(pop) < SampleSize
       THEN \* random.sample raises ValueError; nothing catches it
            /\ raised' = TRUE
            /\ ui' = Append(ui, <<"exception", "ValueError">>)
            /\ pc' = "done"
            /\ UNCHANGED <<idx, distractors, mcqs>>
       ELSE /\ IF Qualifies(sentence)
               THEN \E d \in Samples(pop, SampleSize) :
                    \E options \in Shuffles(<<correct_answer>> \o d) :
                       /\ distractors' = d
                       /\ mcqs' = Append(mcqs, <<McqQuestion(sentence),
                                                 LabelOptions(options),
                                                 correct_answer>>)
               ELSE UNCHANGED <<distractors, mcqs>>
            /\ idx' = idx + 1
            /\ IF last
               THEN /\ ui' = ui \o McqShowAll(mcqs', 1)
                    /\ pc' = "done"
               ELSE UNCHANGED <<ui, pc>>
            /\ UNCHANGED raised
    /\ UNCHANGED <<QA_KEY, SUMMARIZE_KEY, rendered, option, context, question,
                   text, attempt, model, summary, hfret, trace>>
    /\ UNCHANGED <<question_type, sentences, questions, flashVars, halted>>

(***************************************************************************)
(* Flashcard Generator handler, lines 187-210                              *)
(***************************************************************************)
\* str.rsplit(sep, 1): cut at the last occurrence of sep only.
m_split1(s, sep) ==
    IF \E i \in 1..Len(s) : IsPrefix(sep, Drop(s, i - 1))
    THEN LET i == CHOOSE i \in 1..Len(s) :
                     /\ IsPrefix(sep, Drop(s, i - 1))
                     /\ \A j \in (i + 1)..Len(s) : ~ IsPrefix(sep, Drop(s, j - 1))
         IN <<SubSeq(s, 1, i - 1), Drop(s, i - 1 + Len(sep))>>
    ELSE <<s>>

\* str.split(sep, 1): cut at the first occurrence of sep only.
split1(s, sep) == Split1From(s, sep, <<>>)

\* Lines 199-200: the stored string f"{term.strip()}: {definition.strip()}"
StoreCard(line) ==
    LET parts == split1(line, <<":">>)
    IN strip(parts[1]) \o <<":", " ">> \o strip(parts[2])

\* Lines 197-200
RECURSIVE CardsFrom(_)
CardsFrom(lines) ==
    IF lines = <<>> THEN <<>>
    ELSE (IF Contains(Head(lines), ":") THEN <<StoreCard(Head(lines))>> ELSE <<>>)
         \o CardsFrom(Tail(lines))

\* Lines 205-206: the displayed term and definition of a stored string.
ShowCard(fc) ==
    LET parts == split1(fc, <<":">>)
    IN <<"markdown", strip(parts[1]), strip(parts[2])>>

GenerateFlashcards ==
    /\ pc = "ui"
    /\ option = "Flashcard Generator"
    /\ IF ~ NonEmpty(text)
       THEN /\ ui' = Append(ui, <<"warning", "Please enter some notes or topic content.">>)
            /\ UNCHANGED flashcards
       ELSE /\ flashcards' = CardsFrom(split(text, <<"\n">>))
            /\ IF flashcards' # <<>>
               THEN ui' = Append(ui, <<"success", "Flashcards:">>)
                          \o [k \in 1..Len(flashcards') |-> ShowCard(flashcards'[k])]
               ELSE ui' = Append(ui, <<"warning", "No flashcards created. Please ensure content is formatted with 'Term: Definition'.">>)
    /\ pc' = "done"
    /\ UNCHANGED <<QA_KEY, SUMMARIZE_KEY, rendered, option, context, question,
                   text, attempt, model, summary, hfret, trace>>
    /\ UNCHANGED <<genVars, halted>>

(***************************************************************************)
(* A Streamlit interaction re-executes the script from the top in the      *)
(* same process.  Lines 9-13 run again: load_dotenv() reads the .env file  *)
(* anew and sets the variables that are not yet in os.environ (it leaves   *)
(* the ones that are, an empty one included), then os.getenv reads them.   *)
(***************************************************************************)
\* The values os.getenv can return in the next run for a key that had value v.
Reloaded(v) == IF v = None THEN KeyValues ELSE {v}

Rerun ==
    /\ pc \in {"done", "stopped"}
    /\ pc' = "startup"
    /\ rendered' = FALSE
    /\ option' = None
    /\ context' = <<>>
    /\ question' = <<>>
    /\ text' = <<>>
    /\ attempt' = 0
    /\ model' = 1
    /\ summary' = None
    /\ hfret' = "idle"
    /\ trace' = <<>>
    /\ ui' = <<>>
    /\ QA_KEY' \in Reloaded(QA_KEY)
    /\ SUMMARIZE_KEY' \in Reloaded(SUMMARIZE_KEY)
    /\ UNCHANGED <<genVars, flashVars, halted>>

AppInit ==
    /\ pc = "startup"
    /\ rendered = FALSE
    /\ option = None
    /\ context = <<>>
    /\ question = <<>>
    /\ text = <<>>
    /\ attempt = 0
    /\ model = 1
    /\ summary = None
    /\ hfret = "idle"
    /\ trace = <<>>
    /\ ui = <<>>
    /\ halted = FALSE

GenIdle ==
    /\ question_type = None
    /\ sentences = <<>>
    /\ idx = 0
    /\ distractors = <<>>
    /\ questions = <<>>
    /\ mcqs = <<>>
    /\ raised = FALSE

FlashIdle ==
    /\ flashcards = <<>>

Init ==
    /\ QA_KEY \in KeyValues
    /\ SUMMARIZE_KEY \in KeyValues
    /\ AppInit
    /\ GenIdle
    /\ FlashIdle

(***************************************************************************)
(* Texts pasted into Generate Questions: up to MaxFrags pieces joined by   *)
(* separators.                                                             *)
(***************************************************************************)
MaxFrags == 4
MaxMcqLen == 42

S6 == <<"a", "\f", "a", " ", "a", "U+00A0", "a", " ", "a", "U+2003", "a">>
S5 == <<"a", " ", "U+000B", "a", "\r", "a", "\t", "a", "\n", "a">>
Pieces == {S6, S5, <<"c">>}
Separators == {<<".", " ">>, <<".", " ", " ">>, <<".">>}

\* Multiple-choice generation branches on every sample and shuffle, so its
\* texts are built from fewer pieces.
McqPieces == {S6, <<"c">>}
McqSeparators == {<<".", " ">>, <<".", " ", " ">>}

RECURSIVE TextsOf(_, _, _)
TextsOf(n, ps, seps) ==
    IF n = 1 THEN ps
    ELSE {f \o sep \o rest : f \in ps, sep \in seps, rest \in TextsOf(n - 1, ps, seps)}

GenTexts == {<<>>} \cup UNION {TextsOf(n, Pieces, Separators) : n \in 1..MaxFrags}
McqTexts ==
    {<<>>} \cup {t \in UNION {TextsOf(n, McqPieces, McqSeparators) : n \in 1..MaxFrags} :
                    Len(t) <= MaxMcqLen}

GenInit ==
    /\ QA_KEY = "k"
    /\ SUMMARIZE_KEY = "k"
    /\ pc = "ui"
    /\ rendered = TRUE
    /\ option = "Generate Questions"
    /\ context = <<>>
    /\ question = <<>>
    /\ \/ question_type = "Normal Questions" /\ text \in GenTexts
       \/ question_type = "Multiple Choice" /\ text \in McqTexts
    /\ attempt = 0
    /\ model = 1
    /\ summary = None
    /\ hfret = "idle"
    /\ trace = <<>>
    /\ ui = <<>>
    /\ halted = FALSE
    /\ sentences = <<>>
    /\ idx = 0
    /\ distractors = <<>>
    /\ questions = <<>>
    /\ mcqs = <<>>
    /\ raised = FALSE
    /\ FlashIdle

GenNext == GenerateQuestions \/ McqStep

SpecGen == GenInit /\ [][GenNext]_vars

(***************************************************************************)
(* Texts pasted into the Flashcard Generator: every string of at most      *)
(* MaxFlashLen characters over FlashChars.                                 *)
(***************************************************************************)
MaxFlashLen == 6
FlashChars == {"t", ":", " ", "\n", "U+00A0"}

FlashTexts == UNION {[1..n -> FlashChars] : n \in 0..MaxFlashLen}

FlashInit ==
    /\ QA_KEY = "k"
    /\ SUMMARIZE_KEY = "k"
    /\ pc = "ui"
    /\ rendered = TRUE
    /\ option = "Flashcard Generator"
    /\ context = <<>>
    /\ question = <<>>
    /\ text \in FlashTexts
    /\ attempt = 0
    /\ model = 1
    /\ summary = None
    /\ hfret = "idle"
    /\ trace = <<>>
    /\ ui = <<>>
    /\ halted = FALSE
    /\ GenIdle
    /\ FlashIdle

FlashNext == GenerateFlashcards

SpecFlash == FlashInit /\ [][FlashNext]_vars

Next == Startup \/ GetAnswer \/ HfAttempt \/ Summarize \/ SumAttempt \/ Rerun

Spec == Init /\ [][Next]_vars

(***************************************************************************)
(* Properties                                                              *)
(***************************************************************************)
Failure(r) == r.err # "none"

\* The n-th POST of a trace is at position i.
IsNthPost(tr, i, n) == Cardinality({j \in PostsAt(tr) : j <= i}) = n

\* C1 as stated: in one Get Answer action hf_api_with_retries sends at most
\* 3 POSTs, returns the first successful response without a further POST,
\* sleeps the fixed delay (5) after every failed attempt except the third,
\* re-raises after the third failure (shown by the handler as an error), and
\* never finishes by returning no response.
C1_EveryFailureRetried ==
    option = "Ask a Doubt" =>
        /\ Cardinality(PostsAt(trace)) <= 3
        /\ hfret # "none"
        /\ \A i \in PostsAt(trace) :
              IF ~ Failure(trace[i][3])
              THEN i = Len(trace) /\ hfret = "response" /\ pc = "done"
              ELSE IF IsNthPost(trace, i, 3)
              THEN /\ i = Len(trace)
                   /\ hfret = "raised"
                   /\ pc = "done"
                   /\ ui = <<<<"error", "Error: exception">>>>
              ELSE i < Len(trace) /\ trace[i + 1] = <<"sleep", 5>>
        /\ \A i \in SleepsAt(trace) :
              i > 1 /\ trace[i - 1][1] = "post" /\ Failure(trace[i - 1][3])
        /\ (pc = "done" /\ trace # <<>>) => hfret \in {"response", "raised"}

\* The attempt failed with a requests.exceptions.RequestException.
RequestFailure(r) == r.err = "req" \/ r.err = "http"

\* C1, amended: in one Get Answer action hf_api_with_retries sends at most
\* 3 POSTs and returns the first successful response without a further POST.
\* After an attempt that fails with a RequestException it sleeps the fixed
\* delay (5) and tries again, except after the third, whose failure it
\* re-raises.  An exception of the POST that is not a RequestException is
\* not caught: it ends the call at once, with no sleep and no further POST.
\* The handler shows either failure as an error, and the wrapper never
\* finishes by returning no response.
C1_RetryContract ==
    option = "Ask a Doubt" =>
        /\ Cardinality(PostsAt(trace)) <= 3
        /\ hfret # "none"
        /\ \A i \in PostsAt(trace) :
              IF ~ Failure(trace[i][3])
              THEN i = Len(trace) /\ hfret = "response" /\ pc = "done"
              ELSE IF IsNthPost(trace, i, 3) \/ ~ RequestFailure(trace[i][3])
              THEN /\ i = Len(trace)
                   /\ hfret = "raised"
                   /\ pc = "done"
                   /\ ui = <<<<"error", "Error: exception">>>>
              ELSE i < Len(trace) /\ trace[i + 1] = <<"sleep", 5>>
        /\ \A i \in SleepsAt(trace) :
              i > 1 /\ trace[i - 1][1] = "post" /\ RequestFailure(trace[i - 1][3])
        /\ (pc = "done" /\ trace # <<>>) => hfret \in {"response", "raised"}

C1_Witness ==
    /\ option = "Ask a Doubt"
    /\ pc = "done"
    /\ hfret = "raised"
    /\ Cardinality(PostsAt(trace)) = 3
    /\ Cardinality(SleepsAt(trace)) = 2
    /\ RequestFailure(trace[Len(trace)][3])

\* The attempt at position i of a Summarize trace gave a non-empty summary.
GaveSummary(tr, i) ==
    /\ tr[i][3].err = "none"
    /\ tr[i][3].kind = "list_summary"
    /\ tr[i][3].summary_text # ""

PostsTo(tr, m) == {i \in PostsAt(tr) : tr[i][2] = models[m]}

\* C2: in Summarize every failed attempt (request error, HTTP error status,
\* or a response that yields no summary) is retried up to 3 attempts per
\* model, each retry on a model comes right after a 1-second sleep, and when
\* every attempt on every model failed the user sees the failure message.
C2_SummarizeRetriesWithDelay ==
    option = "Summarize Notes" =>
        /\ \A i \in PostsAt(trace) :
              (i > 1 /\ \E j \in PostsAt(trace) : j < i /\ trace[j][2] = trace[i][2])
                  => trace[i - 1] = <<"sleep", 1>>
        /\ (pc = "done" /\ trace # <<>>
                /\ \A i \in PostsAt(trace) : ~ GaveSummary(trace, i))
              => /\ \A m \in 1..Len(models) : Cardinality(PostsTo(trace, m)) = 3
                 /\ ui = <<<<"error", "Failed to summarize text.">>>>

MissingKey == ~ (Truthy(QA_KEY) /\ Truthy(SUMMARIZE_KEY))

\* C3 as stated: once the program has stopped on a missing or empty key, in
\* no state after that is a widget rendered, a handler run or a request sent.
C3_NeverAfterHalt ==
    halted => ~ rendered /\ option = None /\ trace = <<>>

\* C3, amended: in a script run that finds either key absent or empty, the
\* program shows the missing-key error and stops that run: in no state of
\* the run is a widget rendered, a handler run or a request sent.  (A later
\* run reads the keys again.)
C3_MissingKeysHalt ==
    MissingKey =>
        /\ pc \in {"startup", "stopped"}
        /\ ~ rendered
        /\ option = None
        /\ trace = <<>>
        /\ pc = "stopped" => ui = <<MissingKeyMsg>>

C3_Witness == pc = "stopped" /\ QA_KEY = "k" /\ SUMMARIZE_KEY = ""

\* C4: Get Answer with an empty context or question, or Summarize with an
\* empty text, sends no request and shows only a warning; a POST is sent
\* only when all inputs of the selected feature are non-empty.
C4_MissingInputRejected ==
    /\ (option = "Ask a Doubt" /\ (context = <<>> \/ question = <<>>))
          => /\ trace = <<>>
             /\ pc = "done"
             /\ ui = <<<<"warning", "Please provide both context and question.">>>>
    /\ (option = "Summarize Notes" /\ text = <<>>)
          => /\ trace = <<>>
             /\ pc = "done"
             /\ ui = <<<<"warning", "Please paste some text.">>>>
    /\ PostsAt(trace) # {}
          => \/ option = "Ask a Doubt" /\ context # <<>> /\ question # <<>>
             \/ option = "Summarize Notes" /\ text # <<>>

C4_Witness ==
    /\ option = "Ask a Doubt"
    /\ context # <<>>
    /\ question = <<>>
    /\ pc = "done"
    /\ trace = <<>>

\* Whitespace-separated tokens of s, counted by where they start.
Tokens(s) ==
    Cardinality({i \in 1..Len(s) :
                    s[i] \notin Whitespace /\ (i = 1 \/ s[i - 1] \in Whitespace)})

Fragments == split(text, <<".", " ">>)

Trimmed(s) == s = <<>> \/ (s[1] \notin Whitespace /\ s[Len(s)] \notin Whitespace)

\* C5: generate_normal_questions returns, in fragment order, exactly one
\* question "What is the meaning of '<trimmed fragment>?'" for each fragment
\* of the split on ". " with more than five tokens, and nothing for any
\* other fragment (five tokens: none; six: one; duplicates: one each).
C5_NormalQuestions ==
    (pc = "done" /\ question_type = "Normal Questions" /\ text # <<>>) =>
        LET long == SelectSeq(Fragments, LAMBDA f : Tokens(f) >= 6)
        IN /\ Len(questions) = Len(long)
           /\ \A k \in 1..Len(long) :
                 /\ questions[k] = <<"What is the meaning of '", strip(long[k]), "?'">>
                 /\ Trimmed(questions[k][2])
           /\ ui = <<<<"write", "Generating questions...">>>>
                   \o [k \in 1..Len(long) |-> <<"markdown", k, questions[k]>>]

C5_Witness ==
    /\ pc = "done"
    /\ question_type = "Normal Questions"
    /\ Len(questions) = 2
    /\ questions[1] = questions[2]
    /\ \E k \in 1..Len(Fragments) : Tokens(Fragments[k]) = 5

\* C6: no distractor of an emitted multiple-choice question equals that
\* question's correct answer.
C6_DistractorExclusivity ==
    (option = "Generate Questions" /\ mcqs # <<>>) =>
        \A k \in 1..Len(distractors) : distractors[k] # mcqs[Len(mcqs)][3]

\* The fragments whose value differs from fragment i: the ones distractors
\* for fragment i can be drawn from.
OtherFragments(i) == {j \in 1..Len(Fragments) : Fragments[j] # Fragments[i]}

ShownQuestions == {k \in 1..Len(ui) : ui[k][1] = "markdown"}

\* C7: generate_mcq_questions raises, and no question at all is returned
\* (none is shown), when a fragment with more than five tokens has fewer
\* than three other fragments to sample from; when no fragment has more than
\* five tokens it returns an empty list without raising.
C7_McqRaises ==
    (pc = "done" /\ question_type = "Multiple Choice" /\ text # <<>>) =>
        /\ (\E i \in 1..Len(Fragments) :
                Tokens(Fragments[i]) > 5 /\ Cardinality(OtherFragments(i)) < 3)
              => raised /\ ShownQuestions = {}
        /\ (\A i \in 1..Len(Fragments) : Tokens(Fragments[i]) <= 5)
              => /\ ~ raised
                 /\ mcqs = <<>>
                 /\ ui = <<<<"write", "Generating questions...">>>>

C7_Witness ==
    /\ pc = "done"
    /\ question_type = "Multiple Choice"
    /\ raised
    /\ Len(mcqs) >= 1
    /\ ShownQuestions = {}

FirstColon(line) == CHOOSE i \in 1..Len(line) :
                       line[i] = ":" /\ \A j \in 1..(i - 1) : line[j] # ":"

Term(line) == strip(SubSeq(line, 1, FirstColon(line) - 1))
Definition(line) == strip(SubSeq(line, FirstColon(line) + 1, Len(line)))

\* C8: a line yields a flashcard iff it contains ':'; cards keep line order;
\* the term shown is the trimmed text before the line's first colon and the
\* definition the trimmed text after it (later colons stay in it), so
\* re-splitting the stored "term: definition" string gives them back.
C8_Flashcards ==
    (pc = "done" /\ option = "Flashcard Generator" /\ text # <<>>) =>
        LET cl == SelectSeq(split(text, <<"\n">>), LAMBDA l : Contains(l, ":"))
        IN /\ Len(flashcards) = Len(cl)
           /\ \A k \in 1..Len(cl) :
                 /\ flashcards[k] = Term(cl[k]) \o <<":", " ">> \o Definition(cl[k])
                 /\ ui[k + 1] = <<"markdown", Term(cl[k]), Definition(cl[k])>>
                 /\ Trimmed(ui[k + 1][2]) /\ Trimmed(ui[k + 1][3])
           /\ Len(ui) = IF cl = <<>> THEN 1 ELSE Len(cl) + 1
           /\ ui[1][1] = IF cl = <<>> THEN "warning" ELSE "success"

C8_Witness ==
    /\ pc = "done"
    /\ option = "Flashcard Generator"
    /\ Len(flashcards) = 2
    /\ Contains(ui[2][3], ":")
    /\ ui[3][2] # <<>>

\* C9: every multiple-choice question has exactly four options labelled
\* A, B, C, D and exactly one label maps to the correct answer, so the label
\* the UI reports as Correct Answer exists and is the only such option.
C9_OneCorrectOption ==
    option = "Generate Questions" =>
        \A k \in 1..Len(mcqs) :
            /\ [j \in 1..Len(mcqs[k][2]) |-> mcqs[k][2][j][1]] = <<"A", "B", "C", "D">>
            /\ Cardinality({j \in 1..Len(mcqs[k][2]) : mcqs[k][2][j][2] = mcqs[k][3]}) = 1

\* C10: in one Summarize action the second model is contacted only after
\* three attempts on the first produced no non-empty summary, no request is
\* sent after a non-empty summary, at most six POSTs are sent, and the
\* action ends by showing exactly one of the summary or the failure message.
C10_ModelOrder ==
    option = "Summarize Notes" =>
        /\ \A i \in PostsTo(trace, 2) :
              /\ Cardinality({j \in PostsTo(trace, 1) : j < i}) = 3
              /\ \A j \in PostsTo(trace, 1) : ~ GaveSummary(trace, j)
        /\ \A i \in PostsAt(trace) :
              GaveSummary(trace, i) => \A j \in PostsAt(trace) : j <= i
        /\ Cardinality(PostsAt(trace)) <= 6
        /\ (pc = "done" /\ text # <<>>)
              => \/ ui = <<<<"success", "Summary:">>, <<"write", summary>>>>
                 \/ ui = <<<<"error", "Failed to summarize text.">>>>
====
